---- MODULE Spec2Model ----
(***************************************************************************)
(* Model of the retrieval-augmented orchestration route                    *)
(* (frontend/app/api/RAG/route.ts): the provisioning coordinator           *)
(* ensureIndexReady with its process-wide promise cache, the GET / DELETE  *)
(* handlers, the POST pipelines, and the pure helpers they use.            *)
(***************************************************************************)
EXTENDS Integers, Sequences, FiniteSets, TLC

(* ------------------------------ bounds -------------------------------- *)

\* Strings are sequences of one-character strings, so that the string
\* functions of the route can be computed character by character.

\* Collection names the store and the cache are keyed by (sanitized names).
Names == {<<"x">>}

\* Number of concurrent request slots that call ensureIndexReady.
NumCallers == 2

\* Initializer promises alive at a time: every unsettled initializer is awaited
\* by the request that created it, and the cache holds at most one more.
Slots == 1..(NumCallers + 1)

\* Poll budget of one attempt: const maxAttempts = 150 in the source; the
\* model scales it down so that a timeout is reachable in a finite search.
maxAttempts == 2

Callers == 1..NumCallers

\* Helper inputs: strings are MaxPad or fewer letters followed by at most
\* MaxAffix characters of Alphabet; numbers lie in -MaxNum..MaxNum.
MaxPad == 46

MaxAffix == 2

MaxNum == 42

Alphabet == {"a", "V", "4", "-", "!", "."}

\* Matches returned by one store query: at most MaxMatches, with timestamps
\* in 0..MaxTs or without a timestamp.
MaxMatches == 3

MaxTs == 5

\* The longest frame list of an ingestion payload.
MaxFrames == 2

\* POST requests served in one run of the model.
MaxRequests == 2

\* Requests of a run of ingestions and overviews.
MaxSummaryRequests == 3

(* ------------------------------- state -------------------------------- *)

VARIABLES
    indexInitPromises,  \* Map<string, Promise<void>>: name -> attempt id
    attempts,           \* the initializer promises alive: slot -> promise state
    indexes,            \* the vector store: name -> "absent"|"initializing"|"ready"
    callers,            \* request slots inside ensureIndexReady
    del,                \* the DELETE handler
    fnIn,               \* argument of a helper function under test
    fnOut,              \* its result
    post,               \* the POST handler: its position, payload and response
    vstore,             \* the records of the collection: [ns, id, metadata]
    prev,               \* the last ingestion that completed (for comparison)
    analyzeRoute        \* the standalone analyze route: its own promise cache,
                        \* the initializer it holds and its request

provVars == <<indexInitPromises, attempts, indexes, callers, del>>

fnVars == <<fnIn, fnOut>>

postVars == <<post, vstore, prev>>

\* What the provisioning steps leave alone.
rest == <<fnIn, fnOut, post, vstore, prev, analyzeRoute>>

vars == <<indexInitPromises, attempts, indexes, callers, del, fnIn, fnOut,
          post, vstore, prev, analyzeRoute>>

Running == {"list", "create", "describe"}

IdleCaller == [pc |-> "idle", name |-> <<"x">>, init |-> 0, error |-> "none"]

IdleDelete == [pc |-> "idle", name |-> <<"x">>]

\* A slot holding no promise.
FreeSlot ==
    [name |-> <<"x">>, pc |-> "free", attempt |-> 0, error |-> "none",
     lists |-> 0, creates |-> 0, exists |-> FALSE]

\* No helper call under test.
NoCall == [f |-> "none", arg |-> <<>>]

NoResult == [f |-> "none", val |-> <<>>]

\* The route after module load: an empty cache, no request in flight; the
\* store may or may not hold the index already.
InitProv ==
    /\ indexInitPromises = <<>>
    /\ attempts = [a \in Slots |-> FreeSlot]
    /\ indexes \in [Names -> {"absent", "ready"}]
    /\ callers = [c \in Callers |-> IdleCaller]
    /\ del = IdleDelete

\* No counted call issued yet.
NoCalls == [store |-> 0, embed |-> 0, generate |-> 0, upsert |-> 0]

\* A request value of type string | number | null | undefined.
Str(s) == [t |-> "str", s |-> s, n |-> 0]

Num(n) == [t |-> "num", s |-> <<>>, n |-> n]

\* undefined or null
Absent == [t |-> "absent", s |-> <<>>, n |-> 0]

\* A number that is not finite (JSON 1e999 parses to Infinity).
Infinite == [t |-> "inf", s |-> <<>>, n |-> 0]

\* The POST handler between requests.
IdlePost ==
    [pc |-> "idle", action |-> "none", name |-> <<"x">>, skipEnsure |-> FALSE,
     videoId |-> Absent, ns |-> <<>>, frames |-> <<>>, summary |-> Absent,
     vectors |-> <<>>, extra |-> <<>>, payloadTopK |-> Absent, topK |-> 0,
     matches |-> <<>>,
     status |-> "none", code |-> 0, message |-> "none", upserted |-> 0,
     includedSummary |-> FALSE, summaryOut |-> Absent, result |-> <<>>,
     net |-> NoCalls, served |-> 0]

NoIngestion ==
    [ns |-> <<>>, frames |-> <<>>, frameIds |-> {}, ids |-> {}, done |-> FALSE,
     action |-> "none", summary |-> Absent]

InitPost ==
    /\ post = IdlePost
    /\ vstore = {}
    /\ prev = NoIngestion

\* The analyze route after module load: its own empty cache, no request.
InitAnalyze ==
    analyzeRoute = [cache |-> {}, promise |-> [n \in Names |-> FreeSlot],
                    pc |-> "idle", name |-> <<"x">>, error |-> "none",
                    variant |-> "text", matches |-> <<>>, sorted |-> <<>>,
                    images |-> <<>>, context |-> <<>>, parts |-> <<>>,
                    citations |-> <<>>, code |-> 0,
                    net |-> [embed |-> 0, query |-> 0, generate |-> 0]]

Init ==
    /\ InitProv
    /\ InitAnalyze
    /\ fnIn = NoCall
    /\ fnOut = NoResult
    /\ InitPost

(* ------------------------- the promise cache --------------------------- *)

\* indexInitPromises.set(indexName, initializer)
CacheSet(m, n, a) == [k \in DOMAIN m \cup {n} |-> IF k = n THEN a ELSE m[k]]

\* indexInitPromises.delete(indexName)
CacheDelete(m, n) == [k \in DOMAIN m \ {n} |-> m[k]]

\* Mutant of OnReject: the handler rethrows without evicting the entry.
OnRejectKeep(m, n) == m

\* The .catch handler of the initializer: evict by name, rethrow.
OnReject(m, n) == CacheDelete(m, n)

\* The initializer up to its first await: client.listIndexes() has been called.
NewAttempt(n) ==
    [name |-> n, pc |-> "list", attempt |-> 0, error |-> "none",
     lists |-> 1, creates |-> 0, exists |-> FALSE]

\* A settled promise keeps its outcome only: the initializer's locals are gone.
Settled(n, outcome, e) ==
    [name |-> n, pc |-> outcome, attempt |-> 0, error |-> e, lists |-> 0, creates |-> 0,
     exists |-> FALSE]

\* A settled promise that neither the cache nor an awaiting request refers to
\* is unreachable: the runtime collects it and its slot is free again.
Referenced(a, m, cs) ==
    \/ \E n \in DOMAIN m : m[n] = a
    \/ \E c \in Callers : cs[c].pc = "await" /\ cs[c].init = a

Sweep(att, m, cs) ==
    [a \in Slots |->
        IF att[a].pc \in {"resolved", "rejected"} /\ ~Referenced(a, m, cs)
        THEN FreeSlot ELSE att[a]]

FreeSlots == {a \in Slots : attempts[a].pc = "free"}

Lowest(S) == CHOOSE a \in S : \A b \in S : a <= b

(* --------------------------- ensureIndexReady -------------------------- *)

\* Mutant of Existing: the lookup never finds the cached promise.
ExistingMiss(n) == FALSE

\* const existing = indexInitPromises.get(indexName); if (existing) ...
Existing(n) == n \in DOMAIN indexInitPromises

\* The synchronous part of ensureIndexReady(n) run by caller slot c: join the
\* cached promise, or create the initializer (which calls listIndexes at once)
\* and cache it; either way the caller then awaits that promise.
ensureIndexReady(c, n) ==
    IF Existing(n)
    THEN /\ callers' = [callers EXCEPT ![c] =
                [pc |-> "await", name |-> n, init |-> indexInitPromises[n],
                 error |-> "none"]]
         /\ UNCHANGED <<indexInitPromises, attempts>>
    ELSE /\ FreeSlots # {}
         /\ attempts' = [attempts EXCEPT ![Lowest(FreeSlots)] = NewAttempt(n)]
         /\ indexInitPromises' = CacheSet(indexInitPromises, n, Lowest(FreeSlots))
         /\ callers' = [callers EXCEPT ![c] =
                [pc |-> "await", name |-> n, init |-> Lowest(FreeSlots),
                 error |-> "none"]]

\* GET without ?list=: the readiness probe calls ensureIndexReady(indexName).
\* A slot takes a new request once its previous response has been sent; the
\* record keeps that response until then.
GetProbe(c, n) ==
    /\ callers[c].pc \in {"idle", "ok", "error"}
    /\ ensureIndexReady(c, n)
    /\ UNCHANGED <<indexes, del>>
    /\ UNCHANGED rest

\* The awaited promise settled: the caller returns ok, or the error propagates.
Resume(c) ==
    /\ callers[c].pc = "await"
    /\ attempts[callers[c].init].pc \in {"resolved", "rejected"}
    /\ callers' = [callers EXCEPT ![c].pc =
            IF attempts[callers[c].init].pc = "resolved" THEN "ok" ELSE "error",
                                  ![c].error = attempts[callers[c].init].error]
    /\ attempts' = Sweep(attempts, indexInitPromises, callers')
    /\ UNCHANGED <<indexInitPromises, indexes, del>>
    /\ UNCHANGED rest

(* ----------------------- steps of one initializer ---------------------- *)

\* The initializer rejects with error e: its .catch handler evicts the entry
\* and rethrows, so the cached promise rejects after the eviction.
Reject(a, e) ==
    /\ attempts' = [attempts EXCEPT ![a] = Settled(attempts[a].name, "rejected", e)]
    /\ indexInitPromises' = OnReject(indexInitPromises, attempts[a].name)

\* const exists = indexes.some((index) => index.name === indexName)
Listed(n) == indexes[n] # "absent"

\* Mutant of NeedsCreate: createIndex is called whatever the list says.
NeedsCreateAlways(exists) == TRUE

\* if (!exists) await client.createIndex(...)
NeedsCreate(exists) == ~exists

\* listIndexes() returned: exists? then poll, else createIndex is called.
ListReturns(a) ==
    /\ attempts[a].pc = "list"
    /\ IF NeedsCreate(Listed(attempts[a].name))
       THEN attempts' = [attempts EXCEPT ![a].pc = "create", ![a].creates = @ + 1,
                                         ![a].exists = Listed(attempts[a].name)]
       ELSE attempts' = [attempts EXCEPT ![a].pc = "describe",
                                         ![a].exists = Listed(attempts[a].name)]
    /\ UNCHANGED <<indexInitPromises, indexes, callers, del>>
    /\ UNCHANGED rest

\* listIndexes() threw.
ListThrows(a) ==
    /\ attempts[a].pc = "list"
    /\ Reject(a, "list")
    /\ UNCHANGED <<indexes, callers, del>>
    /\ UNCHANGED rest

\* createIndex() returned: the store holds the (not yet ready) index; the
\* poll loop starts with its first describeIndex call.
CreateReturns(a) ==
    /\ attempts[a].pc = "create"
    /\ indexes[attempts[a].name] = "absent"
    /\ indexes' = [indexes EXCEPT ![attempts[a].name] = "initializing"]
    /\ attempts' = [attempts EXCEPT ![a].pc = "describe"]
    /\ UNCHANGED <<indexInitPromises, callers, del>>
    /\ UNCHANGED rest

\* createIndex() threw (the name was created meanwhile, quota, network).
CreateThrows(a) ==
    /\ attempts[a].pc = "create"
    /\ Reject(a, "create")
    /\ UNCHANGED <<indexes, callers, del>>
    /\ UNCHANGED rest

\* describeIndex() reported ready: the initializer resolves.
DescribeReady(a) ==
    /\ attempts[a].pc = "describe"
    /\ indexes[attempts[a].name] = "ready"
    /\ attempts' = [attempts EXCEPT ![a] = Settled(attempts[a].name, "resolved", "none")]
    /\ UNCHANGED <<indexInitPromises, indexes, callers, del>>
    /\ UNCHANGED rest

\* Mutant of LoopContinues: the loop allows one poll more.
LoopContinuesOneMore(attempt) == attempt <= maxAttempts

\* for (...; attempt < maxAttempts; ...): the loop condition.
LoopContinues(attempt) == attempt < maxAttempts

\* describeIndex() reported not ready, or threw (swallowed); the handler
\* sleeps 2 s, attempt += 1, and the loop polls again or, the budget spent,
\* the initializer throws the timeout error.  (The sleep reads and writes no
\* shared state, so it is folded into the step that follows it.)
DescribeNotReady(a) ==
    /\ attempts[a].pc = "describe"
    /\ IF LoopContinues(attempts[a].attempt + 1)
       THEN /\ attempts' = [attempts EXCEPT ![a].attempt = @ + 1]
            /\ UNCHANGED indexInitPromises
       ELSE Reject(a, "timeout")
    /\ UNCHANGED <<indexes, callers, del>>
    /\ UNCHANGED rest

(* ------------------------------ the store ------------------------------ *)

\* The store finishes initializing an index.
StoreReady(n) ==
    /\ indexes[n] = "initializing"
    /\ indexes' = [indexes EXCEPT ![n] = "ready"]
    /\ UNCHANGED <<indexInitPromises, attempts, callers, del>>
    /\ UNCHANGED rest

(* -------------------------------- DELETE ------------------------------- *)

\* DELETE ?indexName=n: client.deleteIndex(n) has been called.  The handler
\* takes a new request once its previous response has been sent; the record
\* keeps that response until then.
DeleteCall(n) ==
    /\ del.pc \in {"idle", "ok", "error"}
    /\ del' = [pc |-> "deleting", name |-> n]
    /\ UNCHANGED <<indexInitPromises, attempts, indexes, callers>>
    /\ UNCHANGED rest

\* The store carries out the deletion; its response is on the way.
StoreDeletes ==
    /\ del.pc = "deleting"
    /\ indexes[del.name] # "absent"
    /\ indexes' = [indexes EXCEPT ![del.name] = "absent"]
    /\ del' = [del EXCEPT !.pc = "deleted"]
    /\ UNCHANGED <<indexInitPromises, attempts, callers>>
    /\ UNCHANGED rest

\* Mutant of OnDeleted: the handler leaves the cache as it is.
OnDeletedKeep(m, n) == m

\* // Clear from cache: indexInitPromises.delete(indexName)
OnDeleted(m, n) == CacheDelete(m, n)

\* deleteIndex returned: the handler clears the cache entry and answers ok.
DeleteReturns ==
    /\ del.pc = "deleted"
    /\ indexInitPromises' = OnDeleted(indexInitPromises, del.name)
    /\ attempts' = Sweep(attempts, indexInitPromises', callers)
    /\ del' = [del EXCEPT !.pc = "ok"]
    /\ UNCHANGED <<indexes, callers>>
    /\ UNCHANGED rest

\* deleteIndex threw (no such index, or the network failed before or after
\* the store acted): the cache is left as it is and the handler answers 500.
DeleteThrows ==
    /\ del.pc \in {"deleting", "deleted"}
    /\ del' = [del EXCEPT !.pc = "error"]
    /\ UNCHANGED <<indexInitPromises, attempts, indexes, callers>>
    /\ UNCHANGED rest

(* ---------------------- the standalone analyze route ------------------- *)
\* The analyze route is a module of its own: it declares its own
\* indexInitPromises map and its own copy of ensureIndexReady, and talks to
\* the same store.  analyzeRoute.cache is the key set of that map and
\* analyzeRoute.promise[n] the initializer it created last for n.

\* part_001 holds two versions of the standalone analyze handler: one that
\* sends the text context only, one that also loads the frame images.
Variants == {"text", "images"}

\* The initializer of the analyze route rejects: its .catch handler evicts
\* the entry of the route's own map.
AnalyzeReject(n, e) ==
    analyzeRoute' = [analyzeRoute EXCEPT !.promise[n] = Settled(n, "rejected", e),
                                         !.cache = @ \ {n}]

\* A request for index n arrives at version v of the handler, which has sent
\* the response of the request before.
AnalyzeRequest(r, n, v) ==
    [r EXCEPT !.name = n, !.variant = v, !.error = "none",
              !.matches = <<>>, !.sorted = <<>>, !.images = <<>>, !.context = <<>>,
              !.parts = <<>>, !.citations = <<>>, !.code = 0,
              !.net = [embed |-> 0, query |-> 0, generate |-> 0]]

\* POST to the analyze route without skipEnsure: ensureIndexReady(n) joins the
\* promise cached in the route's own map, or creates and caches an initializer.
AnalyzeEnsure(n, v) ==
    /\ analyzeRoute.pc \in {"idle", "done", "error"}
    /\ analyzeRoute' =
            IF n \in analyzeRoute.cache
            THEN [AnalyzeRequest(analyzeRoute, n, v) EXCEPT !.pc = "await"]
            ELSE [AnalyzeRequest(analyzeRoute, n, v) EXCEPT
                                      !.pc = "await",
                                      !.cache = @ \cup {n},
                                      !.promise[n] = NewAttempt(n)]
    /\ UNCHANGED <<provVars, fnVars, postVars>>

\* The awaited promise settled: the handler goes on to its retrieval steps
\* (pc "ok"), or answers 500.
AnalyzeResume ==
    /\ analyzeRoute.pc = "await"
    /\ analyzeRoute.promise[analyzeRoute.name].pc \in {"resolved", "rejected"}
    /\ analyzeRoute' =
            IF analyzeRoute.promise[analyzeRoute.name].pc = "resolved"
            THEN [analyzeRoute EXCEPT !.pc = "ok"]
            ELSE [analyzeRoute EXCEPT
                    !.pc = "error",
                    !.error = analyzeRoute.promise[analyzeRoute.name].error,
                    !.promise[analyzeRoute.name] =
                        IF analyzeRoute.name \in analyzeRoute.cache THEN @ ELSE FreeSlot]
    /\ UNCHANGED <<provVars, fnVars, postVars>>

AnalyzeListReturns(n) ==
    /\ analyzeRoute.promise[n].pc = "list"
    /\ analyzeRoute' =
            IF NeedsCreate(Listed(n))
            THEN [analyzeRoute EXCEPT !.promise[n].pc = "create",
                                      !.promise[n].creates = @ + 1,
                                      !.promise[n].exists = Listed(n)]
            ELSE [analyzeRoute EXCEPT !.promise[n].pc = "describe",
                                      !.promise[n].exists = Listed(n)]
    /\ UNCHANGED <<provVars, fnVars, postVars>>

AnalyzeListThrows(n) ==
    /\ analyzeRoute.promise[n].pc = "list"
    /\ AnalyzeReject(n, "list")
    /\ UNCHANGED <<provVars, fnVars, postVars>>

AnalyzeCreateReturns(n) ==
    /\ analyzeRoute.promise[n].pc = "create"
    /\ indexes[n] = "absent"
    /\ indexes' = [indexes EXCEPT ![n] = "initializing"]
    /\ analyzeRoute' = [analyzeRoute EXCEPT !.promise[n].pc = "describe"]
    /\ UNCHANGED <<indexInitPromises, attempts, callers, del, fnVars, postVars>>

AnalyzeCreateThrows(n) ==
    /\ analyzeRoute.promise[n].pc = "create"
    /\ AnalyzeReject(n, "create")
    /\ UNCHANGED <<provVars, fnVars, postVars>>

AnalyzeDescribeReady(n) ==
    /\ analyzeRoute.promise[n].pc = "describe"
    /\ indexes[n] = "ready"
    /\ analyzeRoute' = [analyzeRoute EXCEPT !.promise[n] = Settled(n, "resolved", "none")]
    /\ UNCHANGED <<provVars, fnVars, postVars>>

AnalyzeDescribeNotReady(n) ==
    /\ analyzeRoute.promise[n].pc = "describe"
    /\ IF LoopContinues(analyzeRoute.promise[n].attempt + 1)
       THEN analyzeRoute' = [analyzeRoute EXCEPT !.promise[n].attempt = @ + 1]
       ELSE AnalyzeReject(n, "timeout")
    /\ UNCHANGED <<provVars, fnVars, postVars>>

AnalyzeStep ==
    \/ \E n \in Names, v \in Variants : AnalyzeEnsure(n, v)
    \/ AnalyzeResume
    \/ \E n \in Names : AnalyzeListReturns(n)
    \/ \E n \in Names : AnalyzeListThrows(n)
    \/ \E n \in Names : AnalyzeCreateReturns(n)
    \/ \E n \in Names : AnalyzeCreateThrows(n)
    \/ \E n \in Names : AnalyzeDescribeReady(n)
    \/ \E n \in Names : AnalyzeDescribeNotReady(n)

(* ------------------------------- strings ------------------------------- *)

LowerLetters ==
    <<"a", "b", "c", "d", "e", "f", "g", "h", "i", "j", "k", "l", "m",
      "n", "o", "p", "q", "r", "s", "t", "u", "v", "w", "x", "y", "z">>

UpperLetters ==
    <<"A", "B", "C", "D", "E", "F", "G", "H", "I", "J", "K", "L", "M",
      "N", "O", "P", "Q", "R", "S", "T", "U", "V", "W", "X", "Y", "Z">>

DigitChars == <<"0", "1", "2", "3", "4", "5", "6", "7", "8", "9">>

Range(f) == {f[i] : i \in DOMAIN f}


RECURSIVE Digits(_)
Digits(n) ==
    IF n < 10 THEN <<DigitChars[n + 1]>>
    ELSE Digits(n \div 10) \o <<DigitChars[(n % 10) + 1]>>

\* Number.prototype.toString for an integer.
NumToString(n) == IF n < 0 THEN <<"-">> \o Digits(-n) ELSE Digits(n)

\* String.prototype.toLowerCase.
toLowerCase(s) ==
    [i \in 1..Len(s) |->
        IF s[i] \in Range(UpperLetters)
        THEN LowerLetters[CHOOSE k \in 1..Len(UpperLetters) : UpperLetters[k] = s[i]]
        ELSE s[i]]

\* The character class [a-z0-9-].
IsNameChar(ch) == ch \in Range(LowerLetters) \cup Range(DigitChars) \cup {"-"}

RECURSIVE DropInvalid(_)
DropInvalid(s) ==
    IF s # <<>> /\ ~IsNameChar(Head(s)) THEN DropInvalid(Tail(s)) ELSE s

\* replace(/[^a-z0-9-]+/g, "-")
RECURSIVE ReplaceInvalid(_)
ReplaceInvalid(s) ==
    IF s = <<>> THEN <<>>
    ELSE IF IsNameChar(Head(s)) THEN <<Head(s)>> \o ReplaceInvalid(Tail(s))
    ELSE <<"-">> \o ReplaceInvalid(DropInvalid(Tail(s)))

RECURSIVE DropDashes(_)
DropDashes(s) ==
    IF s # <<>> /\ Head(s) = "-" THEN DropDashes(Tail(s)) ELSE s

\* replace(/-+/g, "-")
RECURSIVE CollapseDashes(_)
CollapseDashes(s) ==
    IF s = <<>> THEN <<>>
    ELSE IF Head(s) = "-" THEN <<"-">> \o CollapseDashes(DropDashes(Tail(s)))
    ELSE <<Head(s)>> \o CollapseDashes(Tail(s))

RECURSIVE DropTrailingDashes(_)
DropTrailingDashes(s) ==
    IF s # <<>> /\ s[Len(s)] = "-"
    THEN DropTrailingDashes(SubSeq(s, 1, Len(s) - 1)) ELSE s

\* replace(/^-+|-+$/g, "")
TrimDashes(s) == DropTrailingDashes(DropDashes(s))

\* String.prototype.slice(0, n)
Slice(s, n) == SubSeq(s, 1, IF Len(s) < n THEN Len(s) ELSE n)

(* ------------------------ names and namespaces ------------------------- *)

\* process.env.PINECONE_INDEX ?? "video-frames", with the variable unset.
DEFAULT_INDEX_NAME == <<"v", "i", "d", "e", "o", "-", "f", "r", "a", "m", "e", "s">>

DEFAULT_NAMESPACE == <<"f", "r", "a", "m", "e", "s">>

\* safe.slice(0, 45)
MaxNameLen == 45

sanitizeIndexName(raw) ==
    LET fallback == DEFAULT_INDEX_NAME
        candidate == IF raw.t = "num" THEN NumToString(raw.n)
                     ELSE IF raw.t = "str" THEN raw.s ELSE fallback
        lowered == toLowerCase(candidate)
        replaced == ReplaceInvalid(lowered)
        collapsed == CollapseDashes(replaced)
        trimmed == TrimDashes(collapsed)
        safe == IF trimmed = <<>> THEN fallback ELSE trimmed
    IN  Slice(safe, MaxNameLen)

resolveIndexName(raw) == sanitizeIndexName(raw)

\* !videoId: undefined, null, 0 and "" are falsy.
Falsy(v) == v.t = "absent" \/ (v.t = "num" /\ v.n = 0) \/ (v.t = "str" /\ v.s = <<>>)

getNamespace(videoId) ==
    IF Falsy(videoId) THEN DEFAULT_NAMESPACE
    ELSE <<"v", "i", "d", "e", "o", "-">> \o sanitizeIndexName(videoId)

(* --------------------- matches, citations, frames ---------------------- *)

\* metadata.timestamp: a number, or no such field.
Ts(n) == [t |-> "num", n |-> n]

NoTs == [t |-> "absent", n |-> 0]

\* (m.metadata as any)?.timestamp ?? 0
TimestampOrZero(m) ==
    IF m.metadata.timestamp.t = "num" THEN m.metadata.timestamp.n ELSE 0

\* Array.prototype.sort with the comparator (a, b) => key(a) - key(b), on
\* <<key, item>> pairs: the sort is stable.
RECURSIVE InsertByKey(_, _)
InsertByKey(p, s) ==
    IF s = <<>> THEN <<p>>
    ELSE IF s[1][1] <= p[1] THEN <<s[1]>> \o InsertByKey(p, Tail(s))
    ELSE <<p>> \o s

RECURSIVE SortByKey(_)
SortByKey(ps) ==
    IF ps = <<>> THEN <<>>
    ELSE InsertByKey(ps[Len(ps)], SortByKey(SubSeq(ps, 1, Len(ps) - 1)))

\* Mutant of sortedMatches: the matches stay in similarity order.
unsortedMatches(matches) == matches

\* const sortedMatches = [...matches].sort((a, b) => tsA - tsB)
sortedMatches(matches) ==
    LET ps == SortByKey([i \in 1..Len(matches) |-> <<TimestampOrZero(matches[i]), matches[i]>>])
    IN  [i \in 1..Len(ps) |-> ps[i][2]]

\* citations: sortedMatches.map((m) => ({ id, score, metadata }))
Citations(matches) ==
    LET sm == sortedMatches(matches)
    IN  [i \in 1..Len(sm) |->
            [id |-> sm[i].id, score |-> sm[i].score, metadata |-> sm[i].metadata]]

\* .map((m) => ({ id, score, frame_id, timestamp, description, path }))
OverviewFrame(m) ==
    [id |-> m.id, score |-> m.score, frame_id |-> m.metadata.frame_id,
     timestamp |-> m.metadata.timestamp]

\* Mutant of HasNumericTimestamp: nothing is filtered out.
KeepAll(f) == TRUE

\* .filter((f) => typeof f.timestamp === "number")
HasNumericTimestamp(f) == f.timestamp.t = "num"

\* frames of the overview response: map, filter, sort by timestamp.
OverviewFrames(matches) ==
    LET mapped == [i \in 1..Len(matches) |-> OverviewFrame(matches[i])]
        kept == SelectSeq(mapped, HasNumericTimestamp)
        ps == SortByKey([i \in 1..Len(kept) |-> <<kept[i].timestamp.n, kept[i]>>])
    IN  [i \in 1..Len(ps) |-> ps[i][2]]

(* ------------------------ helper calls under test ---------------------- *)

SeqsUpTo(S, k) == UNION {[1..j -> S] : j \in 0..k}

Pad(k) == [i \in 1..k |-> "a"]

\* "My Video!!.mp4"
ExampleName == <<"M", "y", " ", "V", "i", "d", "e", "o", "!", "!", ".", "m", "p", "4">>

RawInputs ==
    {Absent, Infinite}
        \cup {Num(n) : n \in (-MaxNum)..MaxNum}
        \cup {Str(Pad(k) \o t) : k \in 0..MaxPad, t \in SeqsUpTo(Alphabet, MaxAffix)}
        \cup {Str(ExampleName)}

\* Metadata of the records a namespace holds: frame records (with or without
\* a timestamp), the summary record and the manifest record.
MetaPool ==
    {[role |-> "frame", frame_id |-> n, timestamp |-> Ts(n)] : n \in 0..MaxTs}
        \cup {[role |-> "frame", frame_id |-> 0, timestamp |-> NoTs],
              [role |-> "summary", frame_id |-> 0, timestamp |-> NoTs],
              [role |-> "manifest", frame_id |-> 0, timestamp |-> NoTs]}

\* result.matches: ids are distinct, scores descend with the rank.
MatchLists ==
    UNION {{[i \in 1..k |-> [id |-> i, score |-> k - i, values |-> <<>>, metadata |-> f[i]]]
                : f \in [1..k -> MetaPool]} : k \in 0..MaxMatches}

FnCalls ==
    {[f |-> "sanitizeIndexName", arg |-> r] : r \in RawInputs}
        \cup {[f |-> "getNamespace", arg |-> r] : r \in RawInputs}
        \cup {[f |-> "analyze", arg |-> ms] : ms \in MatchLists}
        \cup {[f |-> "overview", arg |-> ms] : ms \in MatchLists}

InitFn ==
    /\ InitProv
    /\ InitAnalyze
    /\ InitPost
    /\ fnIn \in FnCalls
    /\ fnOut = NoResult

CallSanitizeIndexName ==
    /\ fnIn.f = "sanitizeIndexName" /\ fnOut = NoResult
    /\ fnOut' = [f |-> fnIn.f, val |-> sanitizeIndexName(fnIn.arg)]
    /\ UNCHANGED <<provVars, postVars, analyzeRoute, fnIn>>

CallGetNamespace ==
    /\ fnIn.f = "getNamespace" /\ fnOut = NoResult
    /\ fnOut' = [f |-> fnIn.f, val |-> getNamespace(fnIn.arg)]
    /\ UNCHANGED <<provVars, postVars, analyzeRoute, fnIn>>

\* analyze, from result.matches to the citations of the response.
CallAnalyzeCitations ==
    /\ fnIn.f = "analyze" /\ fnOut = NoResult
    /\ fnOut' = [f |-> fnIn.f, val |-> Citations(fnIn.arg)]
    /\ UNCHANGED <<provVars, postVars, analyzeRoute, fnIn>>

\* overview, from result.matches to the frames of the response.
CallOverviewFrames ==
    /\ fnIn.f = "overview" /\ fnOut = NoResult
    /\ fnOut' = [f |-> fnIn.f, val |-> OverviewFrames(fnIn.arg)]
    /\ UNCHANGED <<provVars, postVars, analyzeRoute, fnIn>>

NextFn ==
    \/ CallSanitizeIndexName
    \/ CallGetNamespace
    \/ CallAnalyzeCitations
    \/ CallOverviewFrames

\* The helper functions applied to every input of the bounded input sets.
SpecFn == InitFn /\ [][NextFn]_vars

(* ----------------------------- POST payloads --------------------------- *)

\* The caller slot whose ensureIndexReady call belongs to the POST handler.
PostCaller == 1

Actions == {"ingest_final", "ingest", "query", "analyze", "overview"}

\* payload.indexName: both resolve to the one index name of the model.
IndexInputs == {Str(<<"x">>), Str(<<"X", "!">>)}

\* payload.videoId
VideoIds == {Absent, Num(7)}

\* A frame of the payload; description and path are carried through unread.
Frame(id, ts) == [frameId |-> id, timestamp |-> ts]

FramePool == {Frame(Num(1), 5), Frame(Str(<<"1">>), 3), Frame(Num(2), 1)}

FrameLists == SeqsUpTo(FramePool, MaxFrames)

\* payload.summary: missing, blank, or text.
Summaries == {Absent, Str(<<" ">>), Str(<<"s">>)}

\* payload.question: missing, empty, or text.
Questions == {Absent, Str(<<>>), Str(<<"q">>)}

\* payload.topK: missing, small, or above every cap.
TopKs == {Absent, Num(1), Num(2000)}

\* String(value) as a template literal renders it.
ToStr(v) == IF v.t = "num" THEN NumToString(v.n) ELSE v.s

\* value ?? fallback on a number
OrElse(v, d) == IF v.t = "absent" THEN d ELSE v.n

Min(a, b) == IF a < b THEN a ELSE b

\* String.prototype.trim
RECURSIVE TrimStart(_)
TrimStart(s) == IF s # <<>> /\ s[1] = " " THEN TrimStart(Tail(s)) ELSE s

RECURSIVE TrimEnd(_)
TrimEnd(s) ==
    IF s # <<>> /\ s[Len(s)] = " " THEN TrimEnd(SubSeq(s, 1, Len(s) - 1)) ELSE s

Trim(s) == TrimEnd(TrimStart(s))

\* summary && summary.trim().length > 0
HasSummary(summary) == ~Falsy(summary) /\ Len(Trim(summary.s)) > 0

\* videoId?.toString() ?? "1"
VideoIdString(videoId) == IF videoId.t = "absent" THEN <<"1">> ELSE ToStr(videoId)

\* `${getNamespace(videoId)}::${suffix}`
VectorId(videoId, suffix) == getNamespace(videoId) \o <<":", ":">> \o suffix

NoMeta ==
    [role |-> "none", video_id |-> <<>>, frame_id |-> Absent, timestamp |-> NoTs,
     text |-> <<>>, count |-> 0, first_timestamp |-> 0, last_timestamp |-> 0]

\* vectors = frames.map((frame, index) => ({ id, values, metadata }))
FrameVectors(videoId, frames) ==
    [i \in 1..Len(frames) |->
        [id |-> VectorId(videoId, ToStr(frames[i].frameId)),
         metadata |-> [NoMeta EXCEPT !.role = "frame",
                                     !.video_id = VideoIdString(videoId),
                                     !.frame_id = frames[i].frameId,
                                     !.timestamp = Ts(frames[i].timestamp)]]]

SummaryVector(videoId, summary) ==
    [id |-> VectorId(videoId, <<"s", "u", "m", "m", "a", "r", "y">>),
     metadata |-> [NoMeta EXCEPT !.role = "summary",
                                 !.video_id = VideoIdString(videoId),
                                 !.text = summary.s]]

ManifestVector(videoId, frames) ==
    [id |-> VectorId(videoId, <<"m", "a", "n", "i", "f", "e", "s", "t">>),
     metadata |-> [NoMeta EXCEPT !.role = "manifest",
                                 !.video_id = VideoIdString(videoId),
                                 !.count = Len(frames),
                                 !.first_timestamp = frames[1].timestamp,
                                 !.last_timestamp = frames[Len(frames)].timestamp]]

(* ------------------------------ the store ------------------------------ *)

NsRecords(store, ns) == {r \in store : r.ns = ns}

NsIds(store, ns) == {r.id : r \in NsRecords(store, ns)}

BatchIds(batch) == {batch[i].id : i \in DOMAIN batch}

\* Mutant of Overwrite: the batch is added next to what the namespace holds.
KeepOld(store, ns, recs) == store \cup recs

\* upsert: a record of the batch replaces the stored record with its ID.
Overwrite(store, ns, recs) ==
    {r \in store : ~(r.ns = ns /\ r.id \in {q.id : q \in recs})} \cup recs

\* The stores an upsert of the batch may leave: when vectors of one batch
\* share an ID, the store keeps one of them.
Upserted(store, ns, batch) ==
    {Overwrite(store, ns, {[ns |-> ns, id |-> batch[i].id, metadata |-> batch[i].metadata] : i \in keep})
        : keep \in {K \in SUBSET DOMAIN batch :
                        /\ \A id \in BatchIds(batch) : \E i \in K : batch[i].id = id
                        /\ \A i, j \in K : batch[i].id = batch[j].id => i = j}}

\* result.matches of a query with topK = k: up to k records of the namespace,
\* each once, in the similarity order the store computed.
QueryResults(store, ns, k) ==
    LET recs == NsRecords(store, ns)
        n == Min(k, Cardinality(recs))
    IN  UNION {{[i \in 1..j |-> [id |-> f[i].id, score |-> j - i, values |-> <<>>,
                                 metadata |-> f[i].metadata]]
                    : f \in {g \in [1..j -> recs] : \A a, b \in 1..j : g[a] = g[b] => a = b}}
                : j \in 0..n}

(* --------------------------- the POST handler -------------------------- *)

\* The handler returns an error response.
Fail(p, code, msg) ==
    [p EXCEPT !.pc = "done", !.status = "error", !.code = code, !.message = msg]

\* The handler returns status ok.
Ok(p) == [p EXCEPT !.pc = "done", !.status = "ok", !.code = 200]

\* await ...upsert([...vectors, ...extraVectors]) is called.
IssueUpsert(p) == [p EXCEPT !.pc = "upsert", !.net.store = @ + 1, !.net.upsert = @ + 1]

\* await embedTexts(texts) with k texts is called: one request per text.
IssueEmbed(p, pc, k) == [p EXCEPT !.pc = pc, !.net.embed = @ + k]

\* The ingestion a finished request completed, if it did.
Completed(p) ==
    IF p.pc = "done" /\ p.status = "ok" /\ p.action \in {"ingest", "ingest_final"}
    THEN [ns |-> p.ns, frames |-> p.frames, frameIds |-> BatchIds(p.vectors),
          ids |-> BatchIds(p.vectors \o p.extra), done |-> TRUE,
          action |-> p.action, summary |-> p.summary]
    ELSE prev

\* Mutant of SkipsEnsure: the flag is ignored.
SkipsEnsureNever(skip) == FALSE

\* if (!skipEnsure) { await ensureIndexReady(indexName); }
SkipsEnsure(skip) == skip

\* A request arrives: the handler picks its branch by payload.action, resolves
\* the index name and, unless skipEnsure, calls ensureIndexReady and awaits it.
Receive(act, skip, rawName) ==
    /\ post.pc = "idle"
    /\ LET p == [post EXCEPT !.action = act, !.skipEnsure = skip,
                             !.name = resolveIndexName(rawName),
                             !.served = @ + 1]
       IN  IF SkipsEnsure(skip)
           THEN /\ post' = [p EXCEPT !.pc = "validate"]
                /\ UNCHANGED <<indexInitPromises, attempts, callers>>
           ELSE /\ ensureIndexReady(PostCaller, p.name)
                /\ post' = [p EXCEPT !.pc = "ensure",
                                     !.net.store = IF Existing(p.name) THEN 0 ELSE 1]
    /\ UNCHANGED <<indexes, del, vstore, prev, fnVars, analyzeRoute>>

\* The requests of a run are capped.
PostReceive(act, skip, rawName) ==
    /\ post.served < MaxRequests
    /\ Receive(act, skip, rawName)

\* payload.action is none of the five: 400 without any other step.
PostUnsupported ==
    /\ post.pc = "idle"
    /\ post.served < MaxRequests
    /\ post' = Fail([post EXCEPT !.action = "other", !.served = @ + 1],
                    400, "unsupported")
    /\ UNCHANGED <<provVars, vstore, prev, fnVars, analyzeRoute>>

\* The response has been sent: the handler's locals are gone.
PostRespond ==
    /\ post.pc = "done"
    /\ post' = [IdlePost EXCEPT !.served = post.served]
    /\ prev' = Completed(post)
    /\ UNCHANGED <<provVars, vstore, fnVars, analyzeRoute>>

\* The awaited initializer settled: the handler goes on, or its catch block
\* answers 500 with the error's message.
PostEnsureReturns ==
    /\ post.pc = "ensure"
    /\ attempts[callers[PostCaller].init].pc \in {"resolved", "rejected"}
    /\ callers' = [callers EXCEPT ![PostCaller] = IdleCaller]
    /\ attempts' = Sweep(attempts, indexInitPromises, callers')
    /\ post' = IF attempts[callers[PostCaller].init].pc = "resolved"
               THEN [post EXCEPT !.pc = "validate"]
               ELSE Fail(post, 500, attempts[callers[PostCaller].init].error)
    /\ UNCHANGED <<indexInitPromises, indexes, del, vstore, prev, fnVars, analyzeRoute>>

\* ingest / ingest_final after the ensure step: reject an empty frame list,
\* else compute the namespace and call embedTexts(descriptions).  summary is
\* the field of the payload; the ingest branch never reads it.
IngestValidate(videoId, frames, summary) ==
    /\ post.pc = "validate"
    /\ post.action \in {"ingest", "ingest_final"}
    /\ post' = IF Len(frames) = 0
               THEN Fail(post, 400, "no frames")
               ELSE IssueEmbed([post EXCEPT !.videoId = videoId,
                                            !.ns = getNamespace(videoId),
                                            !.frames = frames,
                                            !.summary = summary],
                               "embedFrames", Len(frames))
    /\ UNCHANGED <<provVars, vstore, prev, fnVars, analyzeRoute>>

\* The frame embeddings arrived: build the frame vectors; ingest upserts them,
\* ingest_final embeds the summary if there is one, else the manifest text.
EmbedFramesReturns ==
    /\ post.pc = "embedFrames"
    /\ LET p == [post EXCEPT !.vectors = FrameVectors(post.videoId, post.frames)]
       IN  post' = IF post.action = "ingest" THEN IssueUpsert(p)
                   ELSE IF HasSummary(post.summary) THEN IssueEmbed(p, "embedSummary", 1)
                   ELSE IssueEmbed(p, "embedManifest", 1)
    /\ UNCHANGED <<provVars, vstore, prev, fnVars, analyzeRoute>>

\* The summary embedding arrived: push the summary vector, embed the manifest.
EmbedSummaryReturns ==
    /\ post.pc = "embedSummary"
    /\ post' = IssueEmbed([post EXCEPT !.extra =
                    Append(@, SummaryVector(post.videoId, post.summary))],
                "embedManifest", 1)
    /\ UNCHANGED <<provVars, vstore, prev, fnVars, analyzeRoute>>

\* The manifest embedding arrived: push the manifest vector, call upsert.
EmbedManifestReturns ==
    /\ post.pc = "embedManifest"
    /\ post' = IssueUpsert([post EXCEPT !.extra =
                    Append(@, ManifestVector(post.videoId, post.frames))])
    /\ UNCHANGED <<provVars, vstore, prev, fnVars, analyzeRoute>>

\* Mutant of OnManifestError: the error reaches the handler's catch block.
ManifestErrorPropagates(p) == Fail(p, 500, "embed")

\* catch (e) { console.warn(...) }: the handler goes on to the upsert.
OnManifestError(p) == IssueUpsert(p)

\* The manifest embedding failed.
EmbedManifestThrows ==
    /\ post.pc = "embedManifest"
    /\ post' = OnManifestError(post)
    /\ UNCHANGED <<provVars, vstore, prev, fnVars, analyzeRoute>>

\* An embedding call outside the manifest's try block failed: 500.
EmbedThrows ==
    /\ post.pc \in {"embedFrames", "embedSummary", "embedQuestion", "embedProbe"}
    /\ post' = Fail(post, 500, "embed")
    /\ UNCHANGED <<provVars, vstore, prev, fnVars, analyzeRoute>>

\* The upsert returned: the batch is stored and the handler answers ok.
UpsertReturns ==
    /\ post.pc = "upsert"
    /\ indexes[post.name] = "ready"
    /\ vstore' \in Upserted(vstore, post.ns, post.vectors \o post.extra)
    /\ post' = Ok([post EXCEPT
            !.upserted = Len(post.vectors) + Len(post.extra),
            !.includedSummary = post.action = "ingest_final" /\ Len(post.extra) > 0])
    /\ UNCHANGED <<provVars, prev, fnVars, analyzeRoute>>

UpsertThrows ==
    /\ post.pc = "upsert"
    /\ post' = Fail(post, 500, "upsert")
    /\ UNCHANGED <<provVars, vstore, prev, fnVars, analyzeRoute>>

\* The default of payload.topK of each retrieval action.
TopKDefault(action) ==
    IF action = "query" THEN 3 ELSE IF action = "analyze" THEN 10 ELSE 200

\* The largest topK each retrieval action sends to the store.
TopKCap(action) == IF action = "overview" THEN 1000 ELSE 50

Uncapped(action, topK) == OrElse(topK, TopKDefault(action))

\* Math.min(topK ?? default, cap), the topK of the store query.
StoreTopK(action, topK) == Min(OrElse(topK, TopKDefault(action)), TopKCap(action))

\* query / analyze after the ensure step: reject a missing or empty question,
\* else compute the namespace and the capped topK and embed the question.
QueryValidate(videoId, question, topK) ==
    /\ post.pc = "validate"
    /\ post.action \in {"query", "analyze"}
    /\ post' = IF Falsy(question)
               THEN Fail(post, 400, "no question")
               ELSE IssueEmbed([post EXCEPT !.videoId = videoId,
                                            !.ns = getNamespace(videoId),
                                            !.payloadTopK = topK,
                                            !.topK = StoreTopK(post.action, topK)],
                               "embedQuestion", 1)
    /\ UNCHANGED <<provVars, vstore, prev, fnVars, analyzeRoute>>

\* overview after the ensure step: fetch the summary record by its ID.
OverviewStart(videoId, topK) ==
    /\ post.pc = "validate"
    /\ post.action = "overview"
    /\ post' = [post EXCEPT !.pc = "fetch",
                            !.videoId = videoId,
                            !.ns = getNamespace(videoId),
                            !.payloadTopK = topK,
                            !.topK = StoreTopK("overview", topK),
                            !.net.store = @ + 1]
    /\ UNCHANGED <<provVars, vstore, prev, fnVars, analyzeRoute>>

\* rec?.metadata?.text of the fetched summary record, if the namespace has it.
FetchedSummary(store, ns) ==
    LET id == ns \o <<":", ":", "s", "u", "m", "m", "a", "r", "y">>
        recs == {r \in NsRecords(store, ns) : r.id = id}
    IN  IF recs = {} THEN Absent ELSE Str((CHOOSE r \in recs : TRUE).metadata.text)

\* The fetch returned: keep the summary text, embed the probe text.
FetchReturns ==
    /\ post.pc = "fetch"
    /\ indexes[post.name] = "ready"
    /\ post' = IssueEmbed([post EXCEPT !.summaryOut = FetchedSummary(vstore, post.ns)],
                          "embedProbe", 1)
    /\ UNCHANGED <<provVars, vstore, prev, fnVars, analyzeRoute>>

\* The fetch failed: catch {} leaves the summary undefined.
FetchThrows ==
    /\ post.pc = "fetch"
    /\ post' = IssueEmbed(post, "embedProbe", 1)
    /\ UNCHANGED <<provVars, vstore, prev, fnVars, analyzeRoute>>

\* The question (or probe) embedding arrived: query the namespace.
EmbedQueryReturns ==
    /\ post.pc \in {"embedQuestion", "embedProbe"}
    /\ post' = [post EXCEPT !.pc = "query", !.net.store = @ + 1]
    /\ UNCHANGED <<provVars, vstore, prev, fnVars, analyzeRoute>>

\* The query returned its matches: query answers with them, overview with the
\* mapped, filtered and sorted frames; analyze sorts them, builds the prompt
\* and calls generateContent.
QueryReturns(matches) ==
    /\ post.pc = "query"
    /\ indexes[post.name] = "ready"
    /\ matches \in QueryResults(vstore, post.ns, post.topK)
    /\ post' = IF post.action = "query" THEN Ok([post EXCEPT !.result = matches])
               ELSE IF post.action = "overview"
               THEN Ok([post EXCEPT !.result = OverviewFrames(matches)])
               ELSE [post EXCEPT !.pc = "generate",
                                 !.matches = matches,
                                 !.net.generate = @ + 1]
    /\ UNCHANGED <<provVars, vstore, prev, fnVars, analyzeRoute>>

QueryThrows ==
    /\ post.pc = "query"
    /\ post' = Fail(post, 500, "query")
    /\ UNCHANGED <<provVars, vstore, prev, fnVars, analyzeRoute>>

\* The model answered: the citations are the sorted matches.
GenerateReturns ==
    /\ post.pc = "generate"
    /\ post' = Ok([post EXCEPT !.result = Citations(post.matches)])
    /\ UNCHANGED <<provVars, vstore, prev, fnVars, analyzeRoute>>

GenerateThrows ==
    /\ post.pc = "generate"
    /\ post' = Fail(post, 500, "generate")
    /\ UNCHANGED <<provVars, vstore, prev, fnVars, analyzeRoute>>

PostStep ==
    \/ \E act \in Actions, skip \in BOOLEAN, raw \in IndexInputs :
            PostReceive(act, skip, raw)
    \/ PostUnsupported
    \/ PostRespond
    \/ PostEnsureReturns
    \/ \E v \in VideoIds, fs \in FrameLists, s \in Summaries : IngestValidate(v, fs, s)
    \/ EmbedFramesReturns
    \/ EmbedSummaryReturns
    \/ EmbedManifestReturns
    \/ EmbedManifestThrows
    \/ EmbedThrows
    \/ UpsertReturns
    \/ UpsertThrows
    \/ \E v \in VideoIds, q \in Questions, k \in TopKs : QueryValidate(v, q, k)
    \/ \E v \in VideoIds, k \in TopKs : OverviewStart(v, k)
    \/ FetchReturns
    \/ FetchThrows
    \/ EmbedQueryReturns
    \/ \E ms \in QueryResults(vstore, post.ns, post.topK) : QueryReturns(ms)
    \/ QueryThrows
    \/ GenerateReturns
    \/ GenerateThrows

(* ------------------- the standalone analyze pipeline ------------------- *)
PngPath == <<"a", ".", "p", "n", "g">>

JpgPath == <<"b", ".", "j", "p", "g">>

\* Metadata of the matches of the standalone route: frames with a path to a
\* png or a jpeg file, a frame without a path, a frame without a timestamp.
ImageMetaPool ==
    {[role |-> "frame", frame_id |-> 1, timestamp |-> Ts(5), path |-> PngPath],
     [role |-> "frame", frame_id |-> 2, timestamp |-> Ts(1), path |-> JpgPath],
     [role |-> "frame", frame_id |-> 3, timestamp |-> Ts(3), path |-> <<>>],
     [role |-> "frame", frame_id |-> 4, timestamp |-> NoTs, path |-> PngPath]}

\* result.matches of the standalone route's query.
ImageMatchLists ==
    UNION {{[i \in 1..k |-> [id |-> i, score |-> k - i, values |-> <<>>, metadata |-> f[i]]]
                : f \in [1..k -> ImageMetaPool]} : k \in 0..MaxMatches}

\* ext === ".png" ? "image/png" : "image/jpeg"
MimeType(framePath) ==
    IF Len(framePath) >= 4 /\ SubSeq(framePath, Len(framePath) - 3, Len(framePath)) = <<".", "p", "n", "g">>
    THEN "image/png" ELSE "image/jpeg"

\* What loading the image of one match may give: null without a path, else
\* the data URL of the file (kept as its MIME type), or null when reading the
\* file fails.
LoadOutcomes(m) ==
    IF m.metadata.path = <<>> THEN {"null"}
    ELSE {"null", MimeType(m.metadata.path)}

\* frameImages: the results of Promise.all over the sorted matches.
FrameImages(ms) ==
    {im \in [1..Len(ms) -> {"null", "image/png", "image/jpeg"}] :
        \A i \in 1..Len(ms) : im[i] \in LoadOutcomes(ms[i])}

\* The text context: one block "#i [t=..] id=.. (path) description" per match.
Context(ms) ==
    [i \in 1..Len(ms) |->
        [n |-> i, id |-> ms[i].id, frame_id |-> ms[i].metadata.frame_id,
         timestamp |-> ms[i].metadata.timestamp]]

Part(kind, i, id, mime, context) ==
    [kind |-> kind, n |-> i, id |-> id, mime |-> mime, context |-> context]

\* Mutant of HasImage: a triple is pushed for every match.
HasImageAlways(img) == TRUE

\* if (frameImages[i])
HasImage(img) == img # "null"

\* sortedMatches.forEach: label text, inline image and description text of
\* each match whose image was loaded.
RECURSIVE FrameParts(_, _, _)
FrameParts(ms, images, i) ==
    IF i > Len(ms) THEN <<>>
    ELSE (IF HasImage(images[i])
          THEN <<Part("label", i, ms[i].id, "none", <<>>),
                 Part("image", i, ms[i].id, images[i], <<>>),
                 Part("description", i, ms[i].id, "none", <<>>)>>
          ELSE <<>>) \o FrameParts(ms, images, i + 1)

\* contentParts: the prompt (which carries the context), then the triples.
ContentParts(ms, images) ==
    <<Part("prompt", 0, 0, "none", Context(ms))>> \o FrameParts(ms, images, 1)

\* citations: .map((m) => ({ id: m.id, score: m.score, metadata: m.metadata }))
CitationsOf(ms) ==
    [i \in 1..Len(ms) |-> [id |-> ms[i].id, score |-> ms[i].score, metadata |-> ms[i].metadata]]

\* The handler answers with an HTTP status.
AnalyzeAnswer(r, code) == [r EXCEPT !.pc = "done", !.code = code]

\* POST to the analyze route with skipEnsure: no ensureIndexReady call.
AnalyzeSkipEnsure(n, v) ==
    /\ analyzeRoute.pc \in {"idle", "done", "error"}
    /\ analyzeRoute' = [AnalyzeRequest(analyzeRoute, n, v) EXCEPT !.pc = "ok"]
    /\ UNCHANGED <<provVars, fnVars, postVars>>

\* After the ensure step: a missing or empty question is answered 400, else
\* the question is embedded.
AnalyzeValidate(question) ==
    /\ analyzeRoute.pc = "ok"
    /\ analyzeRoute' = IF Falsy(question) THEN AnalyzeAnswer(analyzeRoute, 400)
                       ELSE [analyzeRoute EXCEPT !.pc = "embed", !.net.embed = @ + 1]
    /\ UNCHANGED <<provVars, fnVars, postVars>>

\* The question embedding arrived: query the namespace.
AnalyzeEmbedReturns ==
    /\ analyzeRoute.pc = "embed"
    /\ analyzeRoute' = [analyzeRoute EXCEPT !.pc = "query", !.net.query = @ + 1]
    /\ UNCHANGED <<provVars, fnVars, postVars>>

\* An awaited call of the pipeline threw: the catch block answers 500.
AnalyzeThrows ==
    /\ analyzeRoute.pc \in {"embed", "query", "generate"}
    /\ analyzeRoute' = AnalyzeAnswer(analyzeRoute, 500)
    /\ UNCHANGED <<provVars, fnVars, postVars>>

\* The order in which each version goes on with the matches: the version with
\* images sorts them by timestamp, the text version keeps the store's order.
Ordered(variant, matches) ==
    IF variant = "images" THEN sortedMatches(matches) ELSE matches

\* The query returned.  The text version builds the prompt from the matches
\* and calls generateContent; the version with images first loads the images.
AnalyzeQueryReturns(matches) ==
    /\ analyzeRoute.pc = "query"
    /\ indexes[analyzeRoute.name] = "ready"
    /\ analyzeRoute' =
            IF analyzeRoute.variant = "images"
            THEN [analyzeRoute EXCEPT !.pc = "load",
                                      !.matches = matches,
                                      !.sorted = Ordered("images", matches)]
            ELSE [analyzeRoute EXCEPT !.pc = "generate",
                                      !.matches = matches,
                                      !.sorted = Ordered("text", matches),
                                      !.context = Context(Ordered("text", matches)),
                                      !.parts = <<Part("prompt", 0, 0, "none",
                                                       Context(Ordered("text", matches)))>>,
                                      !.net.generate = @ + 1]
    /\ UNCHANGED <<provVars, fnVars, postVars>>

\* Every load settled (the loader never throws): build the context, the
\* prompt and the content parts, call generateContent.
AnalyzeLoadReturns(images) ==
    /\ analyzeRoute.pc = "load"
    /\ images \in FrameImages(analyzeRoute.sorted)
    /\ analyzeRoute' = [analyzeRoute EXCEPT
            !.pc = "generate",
            !.images = images,
            !.context = Context(analyzeRoute.sorted),
            !.parts = ContentParts(analyzeRoute.sorted, images),
            !.net.generate = @ + 1]
    /\ UNCHANGED <<provVars, fnVars, postVars>>

\* The model answered: status ok with the citations.
AnalyzeGenerateReturns ==
    /\ analyzeRoute.pc = "generate"
    /\ analyzeRoute' = AnalyzeAnswer([analyzeRoute EXCEPT
            !.citations = CitationsOf(analyzeRoute.sorted)], 200)
    /\ UNCHANGED <<provVars, fnVars, postVars>>

AnalyzePipelineStep ==
    \/ \E n \in Names, v \in Variants : AnalyzeSkipEnsure(n, v)
    \/ \E q \in Questions : AnalyzeValidate(q)
    \/ AnalyzeEmbedReturns
    \/ AnalyzeThrows
    \/ \E ms \in ImageMatchLists : AnalyzeQueryReturns(ms)
    \/ \E im \in FrameImages(analyzeRoute.sorted) : AnalyzeLoadReturns(im)
    \/ AnalyzeGenerateReturns

(* ---------------------------- specifications --------------------------- *)

AttemptStep ==
    \E a \in Slots :
        \/ ListReturns(a)
        \/ ListThrows(a)
        \/ CreateReturns(a)
        \/ CreateThrows(a)
        \/ DescribeReady(a)
        \/ DescribeNotReady(a)

CallerStep ==
    \E c \in Callers :
        \/ \E n \in Names : GetProbe(c, n)
        \/ Resume(c)

\* Callers of ensureIndexReady and the attempts they share; no DELETE.
NextEnsure ==
    \/ CallerStep
    \/ AttemptStep
    \/ \E n \in Names : StoreReady(n)

SpecEnsure == Init /\ [][NextEnsure]_vars

\* Requests through both routes, the multiplexed RAG route (readiness probes)
\* and the standalone analyze route, with the initializers of each.
NextRoutes ==
    \/ CallerStep
    \/ AttemptStep
    \/ \E n \in Names : StoreReady(n)
    \/ AnalyzeStep

SpecRoutes == Init /\ [][NextRoutes]_vars

\* The standalone analyze route alone, from the request to the response.
NextAnalyze ==
    \/ AnalyzeStep
    \/ AnalyzePipelineStep
    \/ \E n \in Names : StoreReady(n)

SpecAnalyze == Init /\ [][NextAnalyze]_vars

\* The steps of the initializer in slot a.
InitializerStep(a) ==
    \/ ListReturns(a)
    \/ ListThrows(a)
    \/ CreateReturns(a)
    \/ CreateThrows(a)
    \/ DescribeReady(a)
    \/ DescribeNotReady(a)

\* Every call an initializer awaits (listIndexes, createIndex, describeIndex,
\* the 2 s timer) eventually returns or throws.
SpecEnsureFair ==
    SpecEnsure /\ \A a \in Slots : WF_vars(InitializerStep(a))

\* The GET and DELETE handlers with the initializers they share.
Next ==
    \/ CallerStep
    \/ AttemptStep
    \/ \E n \in Names : StoreReady(n)
    \/ \E n \in Names : DeleteCall(n)
    \/ StoreDeletes
    \/ DeleteReturns
    \/ DeleteThrows

Spec == Init /\ [][Next]_vars

\* POST requests served one after another, with the initializers they start.
NextPost ==
    \/ PostStep
    \/ AttemptStep
    \/ \E n \in Names : StoreReady(n)

SpecPost == Init /\ [][NextPost]_vars

\* Final ingestions of one frame into the default namespace and overviews of
\* it, all with skipEnsure: runs of up to MaxSummaryRequests requests.
NextSummary ==
    \/ /\ post.served < MaxSummaryRequests
       /\ \E act \in {"ingest_final", "overview"} : Receive(act, TRUE, Str(<<"x">>))
    \/ PostRespond
    \/ \E s \in Summaries : IngestValidate(Absent, <<Frame(Num(1), 5)>>, s)
    \/ EmbedFramesReturns
    \/ EmbedSummaryReturns
    \/ EmbedManifestReturns
    \/ EmbedManifestThrows
    \/ EmbedThrows
    \/ UpsertReturns
    \/ UpsertThrows
    \/ OverviewStart(Absent, Absent)
    \/ FetchReturns
    \/ FetchThrows
    \/ EmbedQueryReturns
    \/ \E ms \in QueryResults(vstore, post.ns, post.topK) : QueryReturns(ms)
    \/ QueryThrows

SpecSummary == Init /\ [][NextSummary]_vars

(* ------------------------------- claims ------------------------------- *)

InProgress(n) == {a \in Slots : attempts[a].name = n /\ attempts[a].pc \in Running}

Awaiting(a) == {c \in Callers : callers[c].pc = "await" /\ callers[c].init = a}

\* A caller's await ends in this step with the outcome of the promise it awaited.
ObservesOutcome(c) ==
    LET p == attempts[callers[c].init] IN
    \/ p.pc = "resolved" /\ callers'[c].pc = "ok"
    \/ p.pc = "rejected" /\ callers'[c].pc = "error" /\ callers'[c].error = p.error

\* C1: callers of ensureIndexReady(x) that arrive while an attempt for x is in
\* flight share that attempt: at most one attempt for x is in progress, it has
\* issued exactly one listIndexes call and at most one createIndex call, every
\* caller that awaits an unsettled promise for x awaits the cached one, and
\* each caller returns the outcome (success, or the same error) of the attempt
\* it awaited.
C1_SharedAttempt ==
    /\ [](\A n \in Names :
            /\ Cardinality(InProgress(n)) <= 1
            /\ \A a \in InProgress(n) :
                    /\ attempts[a].lists = 1
                    /\ attempts[a].creates <= 1
                    /\ n \in DOMAIN indexInitPromises
                    /\ indexInitPromises[n] = a
                    /\ Awaiting(a) # {})
    /\ [][\A c \in Callers :
            (callers[c].pc = "await" /\ callers'[c].pc # "await") => ObservesOutcome(c)]_vars

\* Witness of C1: two callers await the same attempt, which has created the
\* index and is polling.
C1_Witness ==
    \E c, d \in Callers :
        /\ c # d
        /\ callers[c].pc = "await" /\ callers[d].pc = "await"
        /\ callers[c].init = callers[d].init
        /\ attempts[callers[c].init].pc = "describe"
        /\ attempts[callers[c].init].creates = 1

\* C2: in every reachable state at most one provisioning attempt per
\* collection name is in progress (listing, creating or polling).
C2_AtMostOneInProgress == \A n \in Names : Cardinality(InProgress(n)) <= 1

\* C3: a failed attempt is evicted and never replayed: the step in which an
\* attempt for x fails leaves no cache entry for x, the cache never holds a
\* rejected promise, and a call that finds no entry creates a fresh
\* initializer whose listIndexes call has been issued.
C3_FailedAttemptEvicted ==
    /\ [](\A n \in DOMAIN indexInitPromises :
            attempts[indexInitPromises[n]].pc # "rejected")
    /\ [][\A a \in Slots :
            (attempts[a].pc \in Running /\ attempts'[a].pc = "rejected")
                => attempts[a].name \notin DOMAIN indexInitPromises']_vars
    /\ [][\A c \in Callers :
            (callers[c].pc # "await" /\ callers'[c].pc = "await")
                => /\ attempts'[callers'[c].init].pc # "rejected"
                   /\ (callers'[c].name \notin DOMAIN indexInitPromises
                        => /\ attempts[callers'[c].init].pc = "free"
                           /\ attempts'[callers'[c].init] = NewAttempt(callers'[c].name)
                           /\ attempts'[callers'[c].init].lists = 1)]_vars

\* Witness of C3: one caller has received a timeout failure and another
\* awaits a later attempt for the same name that is in progress.
C3_Witness ==
    \E c, d \in Callers :
        /\ callers[c].pc = "error" /\ callers[c].error = "timeout"
        /\ callers[d].pc = "await" /\ callers[d].name = callers[c].name
        /\ attempts[callers[d].init].pc \in {"list", "create"}
        /\ callers[d].name \in DOMAIN indexInitPromises
        /\ indexInitPromises[callers[d].name] = callers[d].init

\* The timestamp a claim orders a citation by: the number, or 0 when missing.
ClaimTs(c) == IF c.metadata.timestamp.t = "num" THEN c.metadata.timestamp.n ELSE 0

\* C6: the citations of analyze are a permutation of the matches the store
\* returned (same ids; id, score and metadata of each unchanged) in
\* non-decreasing order of metadata.timestamp, a missing timestamp counting
\* as 0; timestamps [5, 1, 3] give citations in the order [1, 3, 5].
C6_CitationsChronological ==
    fnOut.f = "analyze" =>
        LET ms == fnIn.arg
            cs == fnOut.val
        IN  /\ Len(cs) = Len(ms)
            /\ \A i \in 1..Len(ms) :
                    Cardinality({j \in 1..Len(cs) : cs[j].id = ms[i].id}) = 1
            /\ \A j \in 1..Len(cs) :
                    \E i \in 1..Len(ms) :
                        cs[j] = [id |-> ms[i].id, score |-> ms[i].score,
                                 metadata |-> ms[i].metadata]
            /\ \A i, j \in 1..Len(cs) : i < j => ClaimTs(cs[i]) <= ClaimTs(cs[j])
            /\ (Len(ms) = 3 /\ [i \in 1..3 |-> ms[i].metadata.timestamp] = <<Ts(5), Ts(1), Ts(3)>>)
                    => [i \in 1..3 |-> cs[i].metadata.timestamp] = <<Ts(1), Ts(3), Ts(5)>>

\* Witness of C6: analyze has answered for matches with timestamps [5, 1, 3].
C6_Witness ==
    /\ fnOut.f = "analyze"
    /\ Len(fnIn.arg) = 3
    /\ [i \in 1..3 |-> fnIn.arg[i].metadata.timestamp] = <<Ts(5), Ts(1), Ts(3)>>
    /\ [i \in 1..3 |-> fnOut.val[i].id] = <<2, 3, 1>>

\* C7: getNamespace returns "frames" when videoId is absent and
\* "video-" + sanitize(videoId) for every supplied videoId, string or number.
C7_NamespaceOfVideoId ==
    fnOut.f = "getNamespace" =>
        fnOut.val = IF fnIn.arg = Absent THEN DEFAULT_NAMESPACE
                    ELSE <<"v", "i", "d", "e", "o", "-">> \o sanitizeIndexName(fnIn.arg)

\* C8: sanitizeIndexName returns a non-empty string of at most 45 characters
\* of [a-z0-9-] with no two consecutive dashes and no leading or trailing
\* dash; "My Video!!.mp4" gives "my-video-mp4", and an input with no letter
\* or digit gives the default name.
C8_SanitizedNameWellFormed ==
    fnOut.f = "sanitizeIndexName" =>
        LET v == fnOut.val IN
        /\ Len(v) >= 1 /\ Len(v) <= 45
        /\ \A i \in 1..Len(v) : v[i] \in Range(LowerLetters) \cup Range(DigitChars) \cup {"-"}
        /\ \A i \in 1..(Len(v) - 1) : ~(v[i] = "-" /\ v[i + 1] = "-")
        /\ v[1] # "-" /\ v[Len(v)] # "-"
        /\ fnIn.arg = Str(ExampleName)
                => v = <<"m", "y", "-", "v", "i", "d", "e", "o", "-", "m", "p", "4">>
        /\ (fnIn.arg.t = "str" /\ \A i \in 1..Len(fnIn.arg.s) :
                    fnIn.arg.s[i] \notin Range(LowerLetters) \cup Range(UpperLetters) \cup Range(DigitChars))
                => v = DEFAULT_INDEX_NAME

\* C9: the frames of overview are exactly the matches of the probe query whose
\* metadata.timestamp is a number, in non-decreasing timestamp order; a
\* summary or manifest record never appears among them.
C9_OverviewFramesFiltered ==
    fnOut.f = "overview" =>
        LET ms == fnIn.arg
            fs == fnOut.val
            numeric == {i \in 1..Len(ms) : ms[i].metadata.timestamp.t = "num"}
        IN  /\ Len(fs) = Cardinality(numeric)
            /\ \A i \in numeric :
                    \E j \in 1..Len(fs) :
                        /\ fs[j].id = ms[i].id /\ fs[j].score = ms[i].score
                        /\ fs[j].timestamp = ms[i].metadata.timestamp
            /\ \A i, j \in 1..Len(fs) : i < j => fs[i].timestamp.n <= fs[j].timestamp.n
            /\ \A j \in 1..Len(fs) :
                    \A i \in 1..Len(ms) :
                        ms[i].metadata.role \in {"summary", "manifest"} => fs[j].id # ms[i].id

\* Witness of C9: the probe query returned a manifest record, a summary
\* record and two frames out of order; overview lists the two frames only.
C9_Witness ==
    /\ fnOut.f = "overview"
    /\ Len(fnIn.arg) = 3 /\ Len(fnOut.val) = 2
    /\ fnIn.arg[1].metadata.role = "manifest"
    /\ fnIn.arg[2].metadata.timestamp = Ts(3)
    /\ fnIn.arg[3].metadata.timestamp = Ts(1)
    /\ fnOut.val[1].id = 3 /\ fnOut.val[2].id = 2

\* The request that just finished was rejected by the handler's validation.
Rejected400 == post.pc = "done" /\ post.code = 400 /\ post.action \in Actions

\* C4: an ingest / ingest_final with zero frames and a query / analyze with an
\* empty question are rejected with a validation error before the request has
\* issued any call to the vector store, the embedding service or the
\* generation service, whatever skipEnsure and the state of the store.
C4_ValidationBeforeAnyCall == Rejected400 => post.net = NoCalls

\* An ingestion has just completed whose frame list and namespace are those
\* of the ingestion completed before it.
SameListAgain ==
    /\ post.pc = "done"
    /\ post.status = "ok"
    /\ post.action \in {"ingest", "ingest_final"}
    /\ prev.done
    /\ prev.ns = post.ns
    /\ prev.frames = post.frames

\* No two records of a namespace share an ID.
NoDuplicateIds ==
    \A r, q \in vstore : (r.ns = q.ns /\ r.id = q.id) => r = q

\* A successful upsert leaves in the namespace the IDs it held plus the IDs
\* of the batch, and leaves every other namespace alone.
UpsertOverwritesById ==
    (post.pc = "upsert" /\ post'.pc = "done" /\ post'.status = "ok") =>
        /\ NsIds(vstore', post.ns) = NsIds(vstore, post.ns) \cup BatchIds(post.vectors \o post.extra)
        /\ \A r \in vstore' : r.ns = post.ns /\ r.id \notin BatchIds(post.vectors \o post.extra)
                                    => r \in vstore
        /\ {r \in vstore' : r.ns # post.ns} = {r \in vstore : r.ns # post.ns}

ManifestMissing(p) ==
    /\ p.action = "ingest_final"
    /\ \A i \in DOMAIN p.extra : p.extra[i].metadata.role # "manifest"

\* The step the handler takes when the manifest embedding call ends, and the
\* step that ends an upsert issued without the manifest vector.
ManifestFailureSwallowed ==
    /\ (post.pc = "embedManifest" /\ post' # post) =>
            /\ post'.pc = "upsert"
            /\ post'.net.store = post.net.store + 1
            /\ post'.vectors = FrameVectors(post.videoId, post.frames)
            /\ SubSeq(post'.extra, 1, Len(post.extra)) = post.extra
            /\ post.extra = IF HasSummary(post.summary)
                            THEN <<SummaryVector(post.videoId, post.summary)>>
                            ELSE <<>>
    /\ (post.pc = "upsert" /\ ManifestMissing(post) /\ post' # post) =>
            \/ /\ post'.pc = "done"
               /\ post'.status = "ok"
               /\ post'.upserted = Len(post.vectors) + Len(post.extra)
               /\ BatchIds(post.vectors \o post.extra) \subseteq NsIds(vstore', post.ns)
            \/ /\ post'.pc = "done"
               /\ post'.message = "upsert"
               /\ vstore' = vstore

\* C10: in ingest_final, when the manifest embedding call fails the request
\* still issues the upsert with the frame vectors (and the summary vector when
\* a summary was given) and, once that upsert returns, answers status ok; the
\* only error such a request can still end in is the upsert's own.
C10_ManifestFailureSwallowed == [][ManifestFailureSwallowed]_vars

\* An ingest_final with a summary answered ok although its manifest failed.
C10_Witness ==
    /\ post.pc = "done"
    /\ post.status = "ok"
    /\ ManifestMissing(post)
    /\ Len(post.extra) = 1
    /\ post.upserted = Len(post.frames) + 1

\* An ingestion has just answered ok.
IngestedOk ==
    /\ post.pc = "done"
    /\ post.status = "ok"
    /\ post.action \in {"ingest", "ingest_final"}

\* 1 if the condition holds, else 0.
Count(b) == IF b THEN 1 ELSE 0

\* The batch of the request holds the manifest vector.
ManifestBuilt(p) == \E i \in DOMAIN p.extra : p.extra[i].metadata.role = "manifest"

\* C11: on success the upserted value of an ingestion equals the number of
\* vectors passed to the upsert call, which is the number of frames, plus 1 if
\* a summary that is non-empty after trimming was given, plus 1 if the
\* manifest vector was built.
C11_UpsertedCountsVectors ==
    IngestedOk =>
        /\ post.upserted = Len(post.vectors \o post.extra)
        /\ post.upserted = Len(post.frames) + Count(HasSummary(post.summary))
                                + Count(ManifestBuilt(post))

\* One step of a poll loop: a poll that does not report ready is followed by
\* the next poll while the budget lasts, and by the timeout error when it is
\* spent; an attempt resolves out of the loop only on a ready report.
PollLoopStep ==
    \A a \in Slots :
        (attempts[a].pc = "describe" /\ attempts'[a] # attempts[a]) =>
            \/ /\ attempts'[a].pc = "describe"
               /\ attempts'[a].attempt = attempts[a].attempt + 1
               /\ attempts'[a].attempt < maxAttempts
            \/ /\ attempts'[a].pc = "rejected"
               /\ attempts'[a].error = "timeout"
               /\ attempts[a].attempt + 1 = maxAttempts
            \/ /\ attempts'[a].pc = "resolved"
               /\ indexes[attempts[a].name] = "ready"

\* C12: every provisioning attempt terminates: the polls it has issued never
\* exceed the budget (maxAttempts, 150 in the source), a poll that throws or
\* reports not ready is followed by the next poll, the attempt succeeds at the
\* first poll that reports ready, and it fails with the timeout error once
\* the whole budget of polls has completed without a ready report.
C12_PollLoopBounded ==
    /\ [](\A a \in Slots :
            attempts[a].pc = "describe" => attempts[a].attempt + 1 <= maxAttempts)
    /\ [][PollLoopStep]_vars
    /\ \A a \in Slots :
            (attempts[a].pc \in Running) ~> (attempts[a].pc \notin Running)

\* An attempt has spent its budget and failed with the timeout error.
C12_Witness ==
    \E a \in Slots : attempts[a].pc = "rejected" /\ attempts[a].error = "timeout"

\* C13: a provisioning attempt ends in failure only by exhausting the poll
\* budget: every rejected attempt carries the timeout error, and no error of
\* listIndexes or createIndex makes ensureIndexReady fail.
C13_OnlyTimeoutFails ==
    /\ \A a \in Slots : attempts[a].pc = "rejected" => attempts[a].error = "timeout"
    /\ \A c \in Callers : callers[c].pc = "error" => callers[c].error = "timeout"

\* Caller c performs the cache lookup of ensureIndexReady in this step.
Lookup(c) == callers[c].pc # "await" /\ callers'[c].pc = "await"

\* Attempts for name n that have failed.
Failed(n) == {a \in Slots : attempts[a].name = n /\ attempts[a].pc = "rejected"}

\* C14: eviction on failure is atomic with respect to lookups: the step that
\* fails an attempt leaves the cache without it, so a caller whose lookup for x
\* comes after an attempt for x has failed is never handed that attempt (it
\* then awaits the one promise it was handed, so it never receives the failed
\* attempt's error), and when it finds no entry it starts a fresh attempt.
C14_EvictionAtomic ==
    /\ [](\A n \in Names : \A a \in Failed(n) :
            ~(n \in DOMAIN indexInitPromises /\ indexInitPromises[n] = a))
    /\ [][\A c \in Callers : Lookup(c) =>
            /\ callers'[c].init \notin Failed(callers'[c].name)
            /\ ~Existing(callers'[c].name) =>
                    /\ attempts'[callers'[c].init].pc = "list"
                    /\ indexInitPromises'[callers'[c].name] = callers'[c].init]_vars
    /\ [][\A c \in Callers :
            (callers[c].pc = "await" /\ callers'[c].pc = "await")
                => callers'[c].init = callers[c].init]_vars

\* A caller still holds the failed attempt it awaited while another caller,
\* whose lookup came after the failure, awaits the fresh attempt in the cache.
C14_Witness ==
    \E c, d \in Callers :
        /\ callers[c].pc = "await" /\ callers[d].pc = "await"
        /\ callers[c].name = callers[d].name
        /\ attempts[callers[c].init].pc = "rejected"
        /\ callers[d].init # callers[c].init
        /\ attempts[callers[d].init].pc = "list"
        /\ callers[d].name \in DOMAIN indexInitPromises
        /\ indexInitPromises[callers[d].name] = callers[d].init

\* C15: while a request with skipEnsure = true is handled, for each of the
\* five actions, no listIndexes, createIndex or describeIndex call is issued
\* (no initializer is created or advanced, no caller enters ensureIndexReady)
\* and the provisioning cache stays as it was.
C15_SkipEnsureBypasses ==
    [][(post'.skipEnsure /\ post'.pc # "idle") =>
            /\ indexInitPromises' = indexInitPromises
            /\ attempts' = attempts
            /\ callers' = callers]_vars

\* An analyze request with skipEnsure = true has answered with citations and
\* the cache is still empty, after an ingestion that also skipped the step.
C15_Witness ==
    /\ post.pc = "done"
    /\ post.skipEnsure
    /\ post.status = "ok"
    /\ post.action = "analyze"
    /\ Len(post.result) > 0
    /\ post.net.store = 1
    /\ indexInitPromises = <<>>
    /\ \A a \in Slots : attempts[a].pc = "free"

\* The DELETE handler answers ok in this step.
DeleteSucceeds == del.pc # "ok" /\ del'.pc = "ok"

\* C16: a DELETE for x that succeeds has had the store delete the collection
\* and leaves the cache without an entry for x; a call of ensureIndexReady(x)
\* that finds no entry starts a fresh attempt with a listIndexes call, and an
\* attempt that does not find x listed calls createIndex, so the earlier ready
\* state is not reported again.
C16_DeleteClearsProvisioning ==
    /\ [][(del.pc = "deleting" /\ del'.pc = "deleted")
            => indexes'[del.name] = "absent"]_vars
    /\ [][DeleteSucceeds =>
            /\ del.pc = "deleted"
            /\ del.name \notin DOMAIN indexInitPromises'
            /\ indexes' = indexes]_vars
    /\ [][\A c \in Callers :
            (Lookup(c) /\ callers'[c].name \notin DOMAIN indexInitPromises) =>
                /\ attempts[callers'[c].init].pc = "free"
                /\ attempts'[callers'[c].init].pc = "list"
                /\ attempts'[callers'[c].init].lists = 1]_vars
    /\ [][\A a \in Slots :
            (attempts[a].pc = "list" /\ attempts'[a].pc \in Running
                    /\ attempts'[a] # attempts[a]) =>
                IF indexes[attempts[a].name] = "absent"
                THEN attempts'[a].pc = "create" /\ attempts'[a].creates = 1
                ELSE attempts'[a].pc = "describe" /\ attempts'[a].creates = 0]_vars

\* After a successful DELETE of an index that a caller had seen ready, a later
\* caller's fresh attempt did not find it listed and is creating it again.
C16_Witness ==
    /\ del.pc = "ok"
    /\ indexes[del.name] = "absent"
    /\ \E c, d \in Callers :
        /\ callers[c].pc = "ok" /\ callers[c].name = del.name
        /\ callers[d].pc = "await" /\ callers[d].name = del.name
        /\ attempts[callers[d].init].pc = "create"
        /\ indexInitPromises[del.name] = callers[d].init

\* A videoId the request supplied.
Supplied(v) == v # Absent

\* C17: the mapping from videoId to namespace is one-to-one: no other
\* supplied videoId maps to the namespace of a supplied videoId, and no
\* supplied videoId maps to the default namespace "frames".
C17_NamespaceOneToOne ==
    (fnOut.f = "getNamespace" /\ Supplied(fnIn.arg)) =>
        /\ fnOut.val # DEFAULT_NAMESPACE
        /\ \A w \in RawInputs :
                (Supplied(w) /\ w # fnIn.arg) => getNamespace(w) # fnOut.val

\* A POST with action query, analyze or overview is being handled.
RetrievalInFlight ==
    /\ post.action \in {"query", "analyze", "overview"}
    /\ post.pc # "idle"

\* C18: retrieval is read-only: while a query, analyze or overview request is
\* handled no upsert is issued, and the initializer the request started or
\* joined issues no createIndex call, whatever skipEnsure is and whether or
\* not the collection exists.
C18_RetrievalReadOnly ==
    RetrievalInFlight =>
        /\ post.pc # "upsert"
        /\ callers[PostCaller].pc = "await"
                => attempts[callers[PostCaller].init].creates = 0

\* The batch of the request holds the summary vector.
SummaryBuilt(p) == \E i \in DOMAIN p.extra : p.extra[i].metadata.role = "summary"

\* The record with id namespace::manifest that the namespace holds, if any.
ManifestRecords(ns) ==
    {r \in NsRecords(vstore, ns) :
        r.id = ns \o <<":", ":", "m", "a", "n", "i", "f", "e", "s", "t">>}

\* C19: every ingestion, requested with ingest or with ingest_final, attempts
\* to append a manifest vector (one embedding call beyond those of the frames
\* and the summary); when the manifest vector was built, after the ingestion
\* the namespace holds a record with id namespace::manifest whose count is the
\* number of frames and whose first_timestamp and last_timestamp are the
\* timestamps of the first and the last frame of that ingestion.
C19_ManifestAppended ==
    IngestedOk =>
        /\ post.net.embed = Len(post.frames) + Count(SummaryBuilt(post)) + 1
        /\ ManifestBuilt(post) =>
                \E r \in ManifestRecords(post.ns) :
                    /\ r.metadata.count = Len(post.frames)
                    /\ r.metadata.first_timestamp = post.frames[1].timestamp
                    /\ r.metadata.last_timestamp = post.frames[Len(post.frames)].timestamp

\* Attempts for n in progress in the analyze route.
AnalyzeInProgress(n) == IF analyzeRoute.promise[n].pc \in Running THEN 1 ELSE 0

\* C20: provisioning state is one process-wide entry per collection name: an
\* attempt for x started through one endpoint is found and joined by a call
\* arriving through the other, so the two endpoints together never have two
\* attempts for x in progress, and the analyze route awaits a promise of its
\* own only when the RAG route's cache has no entry for x.
C20_OneEntryAcrossRoutes ==
    \A n \in Names :
        /\ Cardinality(InProgress(n)) + AnalyzeInProgress(n) <= 1
        /\ (analyzeRoute.pc = "await" /\ analyzeRoute.name = n
                /\ analyzeRoute.promise[n].pc \in Running)
            => n \notin DOMAIN indexInitPromises

\* The store query of a retrieval request is in flight.
StoreQueryInFlight == post.pc = "query"

\* C21: the topK passed to the store query is min(requested topK, 50) for
\* query and analyze and min(requested topK, 1000) for overview, with the
\* defaults 3, 10 and 200 when topK is absent, so it never exceeds the cap.
C21_TopKCapped ==
    StoreQueryInFlight =>
        LET cap == IF post.action \in {"query", "analyze"} THEN 50 ELSE 1000
            requested == IF post.payloadTopK # Absent THEN post.payloadTopK.n
                         ELSE IF post.action = "query" THEN 3
                         ELSE IF post.action = "analyze" THEN 10
                         ELSE 200
        IN  /\ post.topK = IF requested < cap THEN requested ELSE cap
            /\ post.topK <= cap

\* A query asking for more than the cap of 50 is in flight, and so is (in
\* another state) an overview asking for more than 1000.
C21_Witness ==
    /\ StoreQueryInFlight
    /\ post.action = "analyze"
    /\ post.payloadTopK = Num(2000)
    /\ post.topK = 50

\* C22: within one provisioning attempt a create-collection call is issued
\* exactly when the name was not among those the list call returned, at most
\* once, and before the first describe-status poll; when the name is listed
\* no create call is issued and the attempt goes straight to polling.
C22_CreateOnlyWhenNotListed ==
    \A a \in Slots :
        /\ attempts[a].creates <= 1
        /\ attempts[a].pc = "list" => attempts[a].creates = 0
        /\ attempts[a].pc = "create" =>
                /\ ~attempts[a].exists
                /\ attempts[a].creates = 1
                /\ attempts[a].attempt = 0
        /\ attempts[a].pc = "describe" =>
                (attempts[a].creates = 1 <=> ~attempts[a].exists)

\* One attempt polls after its create call, another polls a listed index
\* without having created anything.
C22_Witness ==
    /\ \E a \in Slots : /\ attempts[a].pc = "describe"
                        /\ attempts[a].creates = 1
                        /\ attempts[a].attempt > 0
    /\ \E a \in Slots : /\ attempts[a].pc = "describe"
                        /\ attempts[a].exists
                        /\ attempts[a].creates = 0

\* The request is an ingestion.
Ingesting == post.action \in {"ingest", "ingest_final"}

\* The upsert call of the request has been issued.
UpsertIssued == Ingesting /\ post.net.upsert > 0

\* C23: an ingestion request issues at most one upsert call, scoped to the
\* request's namespace, only after every frame-description embedding (and the
\* summary embedding, when a summary is given) has succeeded; if one of those
\* embeddings fails, nothing is written and the request returns an error.
C23_UpsertAfterEmbeddings ==
    /\ post.net.upsert <= 1
    /\ UpsertIssued =>
            /\ Len(post.vectors) = Len(post.frames)
            /\ HasSummary(post.summary) => SummaryBuilt(post)
    /\ IngestedOk => BatchIds(post.vectors \o post.extra) \subseteq NsIds(vstore, post.ns)
    /\ (Ingesting /\ post.pc = "done" /\ post.message = "embed") =>
            /\ post.status = "error"
            /\ post.net.upsert = 0

\* The version of the analyze handler that loads images has called
\* generateContent, or has answered ok.
ImagesSent ==
    /\ analyzeRoute.variant = "images"
    /\ \/ analyzeRoute.pc = "generate"
       \/ analyzeRoute.pc = "done" /\ analyzeRoute.code = 200

\* The positions of the sorted matches whose image was loaded, ascending.
LoadedPositions ==
    SelectSeq([i \in 1..Len(analyzeRoute.images) |-> i],
              LAMBDA i : analyzeRoute.images[i] # "null")

\* C24: in the analyze endpoint that loads images, a match whose image cannot
\* be loaded (or that has no path) contributes no image part but still appears
\* in the text context and in the citations; the content sent to the
\* generation service is the prompt followed by one {label text, inline
\* image, description text} triple per successfully loaded match, in
\* chronological order, and the service is invoked exactly once per
\* successful request.
C24_ImagePartsOfLoadedMatches ==
    ImagesSent =>
        LET ms == analyzeRoute.sorted
            parts == analyzeRoute.parts
            loaded == LoadedPositions
        IN  /\ Len(ms) = Len(analyzeRoute.matches)
            /\ \A i, j \in 1..Len(ms) : i < j => ClaimTs(ms[i]) <= ClaimTs(ms[j])
            /\ \A i \in 1..Len(ms) :
                    ms[i].metadata.path = <<>> => analyzeRoute.images[i] = "null"
            /\ Len(analyzeRoute.context) = Len(ms)
            /\ \A i \in 1..Len(ms) : analyzeRoute.context[i].id = ms[i].id
            /\ parts[1].kind = "prompt"
            /\ parts[1].context = analyzeRoute.context
            /\ Len(parts) = 1 + 3 * Len(loaded)
            /\ \A k \in 1..Len(loaded) :
                    /\ parts[3 * k - 1].kind = "label"
                    /\ parts[3 * k].kind = "image"
                    /\ parts[3 * k].mime = analyzeRoute.images[loaded[k]]
                    /\ parts[3 * k + 1].kind = "description"
                    /\ \A d \in 0..2 : parts[3 * k - 1 + d].id = ms[loaded[k]].id
            /\ analyzeRoute.net.generate = 1
            /\ analyzeRoute.pc = "done" =>
                    /\ Len(analyzeRoute.citations) = Len(ms)
                    /\ \A i \in 1..Len(ms) : analyzeRoute.citations[i].id = ms[i].id

\* A successful request whose matches came back out of chronological order:
\* one image failed to load although the match has a path, one match has no
\* path, one image was loaded.
C24_Witness ==
    /\ ImagesSent
    /\ analyzeRoute.pc = "done"
    /\ analyzeRoute.matches # analyzeRoute.sorted
    /\ \E i \in 1..Len(analyzeRoute.sorted) :
            /\ analyzeRoute.sorted[i].metadata.path # <<>>
            /\ analyzeRoute.images[i] = "null"
    /\ \E i \in 1..Len(analyzeRoute.sorted) : analyzeRoute.sorted[i].metadata.path = <<>>
    /\ \E i \in 1..Len(analyzeRoute.sorted) : analyzeRoute.images[i] # "null"

\* Attempt a fails in this step.
Fails(a) == attempts[a].pc \in Running /\ attempts'[a].pc = "rejected"

\* C25: when a provisioning attempt fails, its failure handler removes only
\* that attempt's own cache entry: an entry installed by a newer attempt for
\* the same name stays in the cache.
C25_EvictsOwnEntryOnly ==
    [][\A a \in Slots :
            Fails(a) =>
                \A n \in DOMAIN indexInitPromises :
                    indexInitPromises[n] # a =>
                        /\ n \in DOMAIN indexInitPromises'
                        /\ indexInitPromises'[n] = indexInitPromises[n]]_vars

\* The cache holds an attempt for n that has succeeded.
Succeeded(n) ==
    /\ n \in DOMAIN indexInitPromises
    /\ attempts[indexInitPromises[n]].pc = "resolved"

\* The DELETE handler for n removes the entry in this step.
DeleteRemoves(n) == del.pc = "deleted" /\ del.name = n /\ del'.pc = "ok"

\* C26: once an attempt for x has succeeded, every later ensureIndexReady(x)
\* returns success without issuing any store call, until a DELETE for x
\* removes the entry; the cached ready state is never re-validated.
C26_ReadyStateCached ==
    [][\A n \in Names :
            Succeeded(n) =>
                /\ \/ DeleteRemoves(n)
                   \/ /\ n \in DOMAIN indexInitPromises'
                      /\ indexInitPromises'[n] = indexInitPromises[n]
                      /\ attempts'[indexInitPromises[n]].pc = "resolved"
                /\ \A c \in Callers :
                        (callers[c].pc # "await" /\ callers'[c].pc = "await"
                                /\ callers'[c].name = n) =>
                            /\ callers'[c].init = indexInitPromises[n]
                            /\ attempts' = attempts
                /\ \A c \in Callers :
                        (callers[c].pc = "await" /\ callers[c].init = indexInitPromises[n]
                                /\ callers'[c].pc # "await") =>
                            callers'[c].pc = "ok"]_vars

\* overview has answered ok and the last ingestion that completed was an
\* ingest_final into the namespace overview reads.
OverviewAfterFinal ==
    /\ post.pc = "done" /\ post.status = "ok" /\ post.action = "overview"
    /\ prev.done /\ prev.action = "ingest_final" /\ prev.ns = post.ns

\* C27: after an ingest_final into a namespace completes, the summary that
\* overview returns for that namespace is the summary given to that most
\* recent ingestion, and is absent when that ingestion carried no summary.
C27_OverviewSummaryIsLatest ==
    OverviewAfterFinal =>
        (post.summaryOut # Absent =>
            /\ HasSummary(prev.summary)
            /\ post.summaryOut = prev.summary)

\* The frames of the request have pairwise distinct frameIds.
DistinctFrameIds ==
    \A i, j \in 1..Len(post.frames) :
        post.frames[i].frameId = post.frames[j].frameId => i = j

\* C28: within one ingestion, frames with pairwise distinct frameIds produce
\* pairwise distinct vector IDs that also differ from the summary and manifest
\* IDs of the namespace, so the number of distinct records written by the
\* upsert equals the returned upserted count.
C28_DistinctVectorIds ==
    (IngestedOk /\ DistinctFrameIds) =>
        /\ \A i, j \in 1..Len(post.vectors) :
                post.vectors[i].id = post.vectors[j].id => i = j
        /\ \A i \in 1..Len(post.vectors), k \in 1..Len(post.extra) :
                post.vectors[i].id # post.extra[k].id
        /\ Cardinality(BatchIds(post.vectors \o post.extra)) = post.upserted

\* The standalone analyze route has answered ok.
AnalyzeAnswered == analyzeRoute.pc = "done" /\ analyzeRoute.code = 200

\* C29: for the same question and the same matches returned by the store, the
\* multiplexed endpoint's action analyze and the standalone analyze endpoint
\* return the same citations in the same order.
C29_SameCitationsBothRoutes ==
    AnalyzeAnswered => analyzeRoute.citations = Citations(analyzeRoute.matches)

\* ingest_final has answered ok.
FinalIngestedOk == IngestedOk /\ post.action = "ingest_final"

\* C30: the includedSummary flag in the ingest_final response is true exactly
\* when a summary vector was included in the upsert (a non-empty summary was
\* given), and false otherwise.
C30_IncludedSummaryFlag ==
    FinalIngestedOk =>
        /\ post.includedSummary <=> SummaryBuilt(post)
        /\ post.includedSummary <=> HasSummary(post.summary)

====
